---------------------------- MODULE Spec2Model ----------------------------
(***************************************************************************)
(* Model of the ingestion pipeline of the ChatGPT archive:                 *)
(*   parser.py   normalisation of raw export records,                      *)
(*   hashing.py  fingerprints,                                             *)
(*   db.py       one connection and one commit per statement,              *)
(*   run_ingest.py  upsert_chat / insert_messages / ingest_export.         *)
(*                                                                         *)
(* JSON values are tagged records.  A text is a sequence of characters;    *)
(* an identifier-like text is written as a one-element sequence.           *)
(***************************************************************************)
EXTENDS Integers, Sequences, FiniteSets, Bags, TLC

(***************************************************************************)
(* JSON values as Python sees them after json.load                         *)
(***************************************************************************)
Null == [t |-> "null"]
Str(s) == [t |-> "str", v |-> s]
Num(n) == [t |-> "num", v |-> n]
List(l) == [t |-> "list", v |-> l]
Dict(d) == [t |-> "dict", v |-> d]
\* a dict of which the code reads only .values(): its values in document order
Mapping(nodes) == [t |-> "dict", values |-> nodes]
EmptyDict == Dict([k \in {} |-> Null])

IsStr(x) == x.t = "str"
IsNum(x) == x.t = "num"
IsList(x) == x.t = "list"
IsDict(x) == x.t = "dict"
IsKeyed(x) == IsDict(x) /\ "v" \in DOMAIN x

\* Python truthiness (`if not msg`, `x or default`, `if extra_fields`)
Truthy(x) ==
    CASE x.t = "null" -> FALSE
      [] x.t = "str"  -> Len(x.v) > 0
      [] x.t = "num"  -> x.v # 0
      [] x.t = "list" -> Len(x.v) > 0
      [] x.t = "dict" -> IF IsKeyed(x) THEN DOMAIN x.v # {} ELSE Len(x.values) > 0
      [] OTHER -> TRUE

\* dict.get(k): None when the key is absent
Get(d, k) == IF IsKeyed(d) /\ k \in DOMAIN d.v THEN d.v[k] ELSE Null

\* x or y
Or(x, y) == IF Truthy(x) THEN x ELSE y

(***************************************************************************)
(* str.strip() and "\n".join()                                             *)
(***************************************************************************)
Whitespace == {" ", "\n"}

RECURSIVE LStrip(_)
LStrip(s) == IF s # <<>> /\ Head(s) \in Whitespace THEN LStrip(Tail(s)) ELSE s

RECURSIVE RStrip(_)
RStrip(s) ==
    IF s # <<>> /\ s[Len(s)] \in Whitespace
    THEN RStrip(SubSeq(s, 1, Len(s) - 1)) ELSE s

Strip(s) == RStrip(LStrip(s))

RECURSIVE Join(_)
Join(texts) ==
    IF texts = <<>> THEN <<>>
    ELSE IF Len(texts) = 1 THEN texts[1]
    ELSE texts[1] \o <<"\n">> \o Join(Tail(texts))

RECURSIVE SelectStr(_)
SelectStr(l) ==
    IF l = <<>> THEN <<>>
    ELSE IF IsStr(Head(l)) THEN <<Head(l).v>> \o SelectStr(Tail(l))
    ELSE SelectStr(Tail(l))

(***************************************************************************)
(* parser.py                                                               *)
(***************************************************************************)
\* a call that raises (AttributeError on .get of a non-dict) has ok = FALSE
Raised == [ok |-> FALSE, val |-> <<>>]
Ok(x) == [ok |-> TRUE, val |-> x]

extract_message_role(raw_msg) ==
    LET author == Get(raw_msg, "author")
        role == Get(author, "role")
    IN IF IsDict(author) /\ IsStr(role) THEN role
       ELSE Or(Get(raw_msg, "role"), Str(<<"assistant">>))

\* the text field tried before the parts list
extract_message_content_text_first(raw_msg) ==
    LET c == Get(raw_msg, "content")
        parts == Get(c, "parts")
        text == Get(c, "text")
    IN IF IsDict(c) /\ IsStr(text) THEN Str(Strip(text.v))
       ELSE IF IsDict(c) /\ IsList(parts) THEN Str(Strip(Join(SelectStr(parts.v))))
       ELSE IF IsStr(c) THEN Str(Strip(c.v))
       ELSE Str(<<>>)

extract_message_content(raw_msg) ==
    LET c == Get(raw_msg, "content")
        parts == Get(c, "parts")
        text == Get(c, "text")
    IN IF IsDict(c) /\ IsList(parts) THEN Str(Strip(Join(SelectStr(parts.v))))
       ELSE IF IsDict(c) /\ IsStr(text) THEN Str(Strip(text.v))
       ELSE IF IsStr(c) THEN Str(Strip(c.v))
       ELSE Str(<<>>)

NormMsg(msg) ==
    Dict([role |-> extract_message_role(msg),
          content |-> extract_message_content(msg),
          raw_json |-> msg])

msg_sort_key(m) ==
    LET ts == Get(Get(m, "raw_json"), "create_time")
    IN IF IsNum(ts) THEN ts.v ELSE 0

\* a sort that puts an element before the elements of equal key
RECURSIVE InsertSortedUnstable(_, _)
InsertSortedUnstable(sorted, m) ==
    IF sorted = <<>> THEN <<m>>
    ELSE IF msg_sort_key(sorted[Len(sorted)]) < msg_sort_key(m)
         THEN Append(sorted, m)
         ELSE Append(InsertSortedUnstable(SubSeq(sorted, 1, Len(sorted) - 1), m),
                     sorted[Len(sorted)])

\* list.sort(key=...) is stable: insert each element after the last element
\* whose key is not greater
RECURSIVE InsertSorted(_, _)
InsertSorted(sorted, m) ==
    IF sorted = <<>> THEN <<m>>
    ELSE IF msg_sort_key(sorted[Len(sorted)]) <= msg_sort_key(m)
         THEN Append(sorted, m)
         ELSE Append(InsertSorted(SubSeq(sorted, 1, Len(sorted) - 1), m),
                     sorted[Len(sorted)])

RECURSIVE SortMessages(_)
SortMessages(ms) ==
    IF ms = <<>> THEN <<>>
    ELSE InsertSorted(SortMessages(SubSeq(ms, 1, Len(ms) - 1)), ms[Len(ms)])

\* the loop over mapping.values(): node.get raises on a non-dict node,
\* a falsy message is skipped, msg.get raises on a truthy non-dict message
RECURSIVE CollectMapping(_)
CollectMapping(nodes) ==
    IF nodes = <<>> THEN Ok(<<>>)
    ELSE LET node == Head(nodes)
             msg == Get(node, "message")
             rest == CollectMapping(Tail(nodes))
         IN IF ~IsDict(node) THEN Raised
            ELSE IF ~Truthy(msg) THEN rest
            ELSE IF ~IsDict(msg) THEN Raised
            ELSE IF ~rest.ok THEN Raised
            ELSE Ok(<<NormMsg(msg)>> \o rest.val)

RECURSIVE CollectList(_)
CollectList(raw_messages) ==
    IF raw_messages = <<>> THEN Ok(<<>>)
    ELSE LET msg == Head(raw_messages)
             rest == CollectList(Tail(raw_messages))
         IN IF ~IsDict(msg) THEN Raised
            ELSE IF ~rest.ok THEN Raised
            ELSE Ok(<<NormMsg(msg)>> \o rest.val)

\* an unrecognized shape treated as an error instead of a warning
extract_messages_strict(raw_chat) ==
    LET mapping == Get(raw_chat, "mapping")
        raw_messages == Get(raw_chat, "messages")
        collected == CollectMapping(mapping.values)
    IN IF IsDict(mapping)
       THEN IF collected.ok THEN Ok(SortMessages(collected.val)) ELSE Raised
       ELSE IF IsList(raw_messages) THEN CollectList(raw_messages.v)
       ELSE Raised

extract_messages_from_chat(raw_chat) ==
    LET mapping == Get(raw_chat, "mapping")
        raw_messages == Get(raw_chat, "messages")
        collected == CollectMapping(mapping.values)
    IN IF IsDict(mapping)
       THEN IF collected.ok THEN Ok(SortMessages(collected.val)) ELSE Raised
       ELSE IF IsList(raw_messages) THEN CollectList(raw_messages.v)
       ELSE Ok(<<>>)

normalize_chat(raw_chat) ==
    LET messages == extract_messages_from_chat(raw_chat)
    IN IF ~messages.ok THEN Raised
       ELSE Ok(Dict([chat_id |-> Get(raw_chat, "id"),
                     title |-> Or(Get(raw_chat, "title"), Str(<<"Untitled Chat">>)),
                     create_time |-> Get(raw_chat, "create_time"),
                     update_time |-> Get(raw_chat, "update_time"),
                     model |-> Get(raw_chat, "model"),
                     messages |-> List(messages.val),
                     raw_json |-> raw_chat]))

(***************************************************************************)
(* hashing.py                                                              *)
(***************************************************************************)
VOLATILE_MESSAGE_KEYS ==
    {"id", "create_time", "update_time", "timestamp", "rating", "metadata"}

strip_volatile_fields(message) ==
    IF ~IsDict(message) THEN message
    ELSE Dict([k \in DOMAIN message.v \ VOLATILE_MESSAGE_KEYS |-> message.v[k]])

\* json.dumps(sort_keys=True, separators=(",", ":")): the text is determined by
\* the value up to the order of dict keys, which Dict does not record
canonical_json(obj) == [json |-> obj]

\* SHA-256 without collisions
sha256_from_string(text) == [sha256 |-> text]

hash_message(raw_message) ==
    sha256_from_string(canonical_json(strip_volatile_fields(raw_message)))

hash_chat(title, messages, extra_fields) ==
    LET cleaned_messages == [i \in 1..Len(messages) |-> strip_volatile_fields(messages[i])]
        payload == IF Truthy(extra_fields)
                   THEN Dict([title |-> title, messages |-> List(cleaned_messages),
                              extra |-> extra_fields])
                   ELSE Dict([title |-> title, messages |-> List(cleaned_messages)])
    IN sha256_from_string(canonical_json(payload))

\* the fingerprint computed without extra_fields
ChatHashWithoutModel(n) ==
    hash_chat(Get(n, "title"), Get(n, "messages").v, Null)

\* ingest_export: hash_chat(title=normalized["title"], messages=messages,
\*                          extra_fields={"model": normalized["model"]})
ChatHashOf(n) ==
    hash_chat(Get(n, "title"), Get(n, "messages").v, Dict([model |-> Get(n, "model")]))

(***************************************************************************)
(* run_ingest.py: pure helpers                                             *)
(***************************************************************************)
RECURSIVE FlattenParts(_)
FlattenParts(messages) ==
    IF messages = <<>> THEN <<>>
    ELSE LET text == Or(Get(Head(messages), "content"), Str(<<>>))
         IN IF IsStr(text) /\ Strip(text.v) # <<>>
            THEN <<Strip(text.v)>> \o FlattenParts(Tail(messages))
            ELSE FlattenParts(Tail(messages))

flatten_content(messages) == Str(Strip(Join(FlattenParts(messages))))

\* json.dumps(obj, ensure_ascii=False) as stored in the raw_json columns
json_dumps(obj) == [json |-> obj]

\* to_timestamp(x or 0)
TimeOrZero(x) == Or(x, Num(0))

(***************************************************************************)
(* Bounds and the export records the runs draw from                        *)
(***************************************************************************)
MaxRuns == 2
MaxExportLen == 2

T(s) == Str(<<s>>)
Author(r) == Dict([role |-> T(r)])
Node(m) == Dict([message |-> m])

MsgHi == Dict([id |-> T("m1"), author |-> Author("user"), create_time |-> Num(100),
               content |-> Dict([parts |-> List(<<Str(<<" ", "h", "i">>)>>)])])
MsgYo == Dict([id |-> T("m2"), author |-> Author("assistant"), create_time |-> Num(50),
               content |-> Dict([text |-> Str(<<"y", "o", " ">>)])])
MsgEdited == Dict([id |-> T("m1"), role |-> T("user"), content |-> Str(<<"h", "o">>)])

ChatA == Dict([id |-> T("a"), title |-> T("Trip"), model |-> T("gpt-4"),
               create_time |-> Num(10), update_time |-> Num(20),
               mapping |-> Mapping(<<Node(MsgHi), Node(Null), Node(MsgYo)>>)])
ChatAEdited == Dict([id |-> T("a"), title |-> T("Trip"), model |-> T("gpt-4"),
                     create_time |-> Num(10), update_time |-> Num(30),
                     messages |-> List(<<MsgEdited>>)])
\* neither a dict-valued mapping nor a list-valued messages
ChatBNoShape == Dict([id |-> T("b"), mapping |-> Null, messages |-> T("none")])
ChatBList == Dict([id |-> T("b"), title |-> T("Notes"), messages |-> List(<<MsgYo>>)])
RawChats == {ChatA, ChatAEdited, ChatBNoShape, ChatBList}

RECURSIVE SeqsUpTo(_, _)
SeqsUpTo(S, n) ==
    IF n = 0 THEN {<<>>}
    ELSE LET shorter == SeqsUpTo(S, n - 1)
         IN shorter \cup {Append(s, e) : s \in shorter, e \in S}

Exports == SeqsUpTo(RawChats, MaxExportLen)

(***************************************************************************)
(* State                                                                   *)
(***************************************************************************)
VARIABLES
    chats,            \* table chats: set of rows, id is the serial key
    msgs,             \* table messages: a bag of rows
    nextId,           \* next value of the chats id sequence
    runs,             \* runs of ingest_export started so far
    export,           \* raw_chats of the run
    pos,              \* index of raw_chat in the for loop, from 1
    pc,               \* the statement the run issues next
    old_row,          \* ingest_export: old_row
    existing,         \* upsert_chat: existing
    chat_db_id,       \* ingest_export: chat_db_id
    index,            \* insert_messages: index
    new_count, updated_count, unchanged_count,
    outcomes,         \* history: the counter incremented for each record
    stmts,            \* history: statements issued by the run
    snap,             \* history: the tables when the record's iteration began
    completed,        \* history: records whose iteration has ended
    rerun,            \* history: the run repeats the export of a completed run
    in1, in2,         \* two raw chat records given to normalize_chat
    out1, out2,       \* what normalize_chat returned for them
    fp1, fp2,         \* their fingerprints as ingest_export computes them
    ppc,              \* position of the normalize-and-hash computation
    raw_msg,          \* a raw message given to extract_message_role / _content
    msg_role,         \* what extract_message_role returned for it
    msg_content,      \* what extract_message_content returned for it
    h_title, h_messages, h_extra_fields,   \* arguments of a call of hash_chat
    digest,           \* hash_chat(title, messages, extra_fields)
    digest_bare,      \* hash_chat(title, messages), extra_fields not supplied
    fpc,              \* position of the function call
    o_raw_chat,       \* a second, concurrent run: the record it ingests
    o_pc,             \* the statement the second run issues next
    o_old_row,        \* its ingest_export: old_row
    o_existing,       \* its upsert_chat: existing
    o_chat_db_id,     \* its ingest_export: chat_db_id
    o_index,          \* its insert_messages: index
    o_runs,           \* second runs started so far
    o_seen,           \* history: `runs` at the last step of the second run
    overlapped        \* history: a step of one run fell inside the other run

pipeVars == <<chats, msgs, nextId, runs, export, pos, pc, old_row, existing,
              chat_db_id, index, new_count, updated_count, unchanged_count,
              outcomes, stmts, snap, completed, rerun>>
pureVars == <<in1, in2, out1, out2, fp1, fp2, ppc>>
fnVars == <<raw_msg, msg_role, msg_content, h_title, h_messages, h_extra_fields,
            digest, digest_bare, fpc>>
otherVars == <<o_raw_chat, o_pc, o_old_row, o_existing, o_chat_db_id, o_index,
               o_runs, o_seen, overlapped>>
vars == <<pipeVars, pureVars, fnVars, otherVars>>

NoRow == [found |-> FALSE, id |-> 0, hash |-> sha256_from_string(canonical_json(Null))]
\* the row the lookup fetched taken for no row
FoundDiscarded(r) == NoRow

Found(r) == [found |-> TRUE, id |-> r.id, hash |-> r.hash]

\* the locals of the loop body, functions of raw_chat
raw_chat == export[pos]
normalized == normalize_chat(raw_chat).val
messages == Get(normalized, "messages").v
chat_hash == ChatHashOf(normalized)

\* the lookup with the wrong column in its WHERE clause
SelectByTitle(ext) ==
    LET hits == IF ext = Null THEN {} ELSE {r \in chats : r.title = ext}
    IN IF hits = {} THEN {NoRow} ELSE {Found(r) : r \in hits}

\* SELECT id, hash FROM chats WHERE chat_id = %s; fetchone().
\* chat_id = NULL is true of no row
SelectByChatId(ext) ==
    LET hits == IF ext = Null THEN {} ELSE {r \in chats : r.chat_id = ext}
    IN IF hits = {} THEN {NoRow} ELSE {Found(r) : r \in hits}

ChatRow(id) ==
    [id |-> id,
     chat_id |-> Get(normalized, "chat_id"),
     title |-> Get(normalized, "title"),
     create_time |-> TimeOrZero(Get(normalized, "create_time")),
     update_time |-> TimeOrZero(Get(normalized, "update_time")),
     model |-> Get(normalized, "model"),
     hash |-> chat_hash,
     content_text |-> flatten_content(messages),
     raw_json |-> json_dumps(normalized)]

\* message_index counted from 1
MessageRowOneBased(id, i) ==
    [chat_id |-> id,
     message_index |-> i + 1,
     role |-> Get(messages[i + 1], "role"),
     content |-> Get(messages[i + 1], "content"),
     raw_json |-> json_dumps(Get(messages[i + 1], "raw_json"))]

MessageRow(id, i) ==
    [chat_id |-> id,
     message_index |-> i,
     role |-> Get(messages[i + 1], "role"),
     content |-> Get(messages[i + 1], "content"),
     raw_json |-> json_dumps(Get(messages[i + 1], "raw_json"))]

\* the DELETE keyed by the export's chat id, which matches no message row
DeleteByExternalId(id) ==
    [m \in {x \in DOMAIN msgs : Num(x.chat_id) # Get(normalized, "chat_id")} |-> msgs[m]]

\* DELETE FROM messages WHERE chat_id = %s
DeleteFromMessages(id) == [m \in {x \in DOMAIN msgs : x.chat_id # id} |-> msgs[m]]

Stmt(op) == [rec |-> pos, op |-> op, ok |-> TRUE]
Tables == [chats |-> chats, msgs |-> msgs]

NoHash == sha256_from_string(canonical_json(Null))

PipeInit ==
    /\ chats = {}
    /\ msgs = EmptyBag
    /\ nextId = 1
    /\ runs = 0
    /\ export = <<>>
    /\ pos = 0
    /\ pc = "idle"
    /\ old_row = NoRow
    /\ existing = NoRow
    /\ chat_db_id = 0
    /\ index = 0
    /\ new_count = 0
    /\ updated_count = 0
    /\ unchanged_count = 0
    /\ outcomes = <<>>
    /\ stmts = <<>>
    /\ snap = [chats |-> {}, msgs |-> EmptyBag]
    /\ completed = 0
    /\ rerun = FALSE

\* no normalize-and-hash computation under way
PureOff ==
    /\ in1 = EmptyDict /\ in2 = EmptyDict
    /\ out1 = Raised /\ out2 = Raised
    /\ fp1 = NoHash /\ fp2 = NoHash
    /\ ppc = "off"

\* no single function call under way
FnOff ==
    /\ raw_msg = EmptyDict /\ msg_role = Null /\ msg_content = Null
    /\ h_title = Null /\ h_messages = <<>> /\ h_extra_fields = Null
    /\ digest = NoHash /\ digest_bare = NoHash
    /\ fpc = "off"

\* no second run
OtherOff ==
    /\ o_raw_chat = EmptyDict /\ o_pc = "idle"
    /\ o_old_row = NoRow /\ o_existing = NoRow
    /\ o_chat_db_id = 0 /\ o_index = 0
    /\ o_runs = 0 /\ o_seen = 0
    /\ overlapped = FALSE

Init ==
    /\ PipeInit
    /\ PureOff
    /\ FnOff
    /\ OtherOff

\* the end of one iteration of `for raw_chat in raw_chats`
NextRecord(newChats, newMsgs) ==
    /\ completed' = completed + 1
    /\ snap' = [chats |-> newChats, msgs |-> newMsgs]
    /\ IF pos = Len(export)
       THEN pc' = "done" /\ pos' = pos
       ELSE pc' = "prefetch" /\ pos' = pos + 1

\* the comparison of the hashes inverted
OutcomeInverted(row, h) ==
    IF ~row.found THEN "New"
    ELSE IF row.hash = h THEN "Updated"
    ELSE "Unchanged"

\* ingest_export: the counter chosen from old_row after upsert_chat returned
Outcome(row, h) ==
    IF ~row.found THEN "New"
    ELSE IF row.hash # h THEN "Updated"
    ELSE "Unchanged"

\* the loop body without its `continue`
ClassifyNoContinue(id, newChats, newMsgs) ==
    LET o == Outcome(old_row, chat_hash)
    IN /\ chat_db_id' = id
       /\ index' = 0
       /\ outcomes' = Append(outcomes, o)
       /\ new_count' = IF o = "New" THEN new_count + 1 ELSE new_count
       /\ updated_count' = IF o = "Updated" THEN updated_count + 1 ELSE updated_count
       /\ unchanged_count' = IF o = "Unchanged" THEN unchanged_count + 1 ELSE unchanged_count
       /\ IF messages = <<>>
          THEN NextRecord(newChats, newMsgs)
          ELSE pc' = "insert_message" /\ UNCHANGED <<pos, completed, snap>>

\* ingest_export after upsert_chat returned id: count, then `continue` or
\* insert_messages (whose loop body does not run for an empty list)
Classify(id, newChats, newMsgs) ==
    LET o == Outcome(old_row, chat_hash)
    IN /\ chat_db_id' = id
       /\ index' = 0
       /\ outcomes' = Append(outcomes, o)
       /\ new_count' = IF o = "New" THEN new_count + 1 ELSE new_count
       /\ updated_count' = IF o = "Updated" THEN updated_count + 1 ELSE updated_count
       /\ unchanged_count' = IF o = "Unchanged" THEN unchanged_count + 1 ELSE unchanged_count
       /\ IF o = "Unchanged" \/ messages = <<>>
          THEN NextRecord(newChats, newMsgs)
          ELSE pc' = "insert_message" /\ UNCHANGED <<pos, completed, snap>>

StartRun(e) ==
    /\ pc \in {"idle", "done", "aborted"}
    /\ runs < MaxRuns
    /\ runs' = runs + 1
    /\ export' = e
    /\ rerun' = (pc = "done" /\ e = export)
    /\ new_count' = 0 /\ updated_count' = 0 /\ unchanged_count' = 0
    /\ outcomes' = <<>> /\ stmts' = <<>> /\ completed' = 0
    /\ snap' = Tables
    /\ IF e = <<>> THEN pc' = "done" /\ pos' = 0 ELSE pc' = "prefetch" /\ pos' = 1
    /\ old_row' = NoRow /\ existing' = NoRow /\ chat_db_id' = 0 /\ index' = 0
    /\ UNCHANGED <<chats, msgs, nextId>>
    /\ UNCHANGED <<pureVars, fnVars, otherVars>>

\* ingest_export: normalize_chat, hash_chat, old_row = fetch_one(...)
PrefetchOldRow ==
    /\ pc = "prefetch"
    /\ IF ~normalize_chat(raw_chat).ok
       THEN pc' = "aborted" /\ UNCHANGED <<old_row, stmts>>
       ELSE /\ \E r \in SelectByChatId(Get(normalized, "chat_id")) : old_row' = r
            /\ stmts' = Append(stmts, Stmt("select"))
            /\ pc' = "select"
    /\ UNCHANGED <<chats, msgs, nextId, runs, export, pos, existing, chat_db_id,
                   index, new_count, updated_count, unchanged_count, outcomes,
                   snap, completed, rerun>>
    /\ UNCHANGED <<pureVars, fnVars, otherVars>>

\* upsert_chat: existing = fetch_one(...), and the return of the unchanged branch
SelectExisting ==
    /\ pc = "select"
    /\ stmts' = Append(stmts, Stmt("select"))
    /\ \E r \in SelectByChatId(Get(normalized, "chat_id")) :
         /\ existing' = r
         /\ IF ~r.found
            THEN pc' = "insert_chat"
                 /\ UNCHANGED <<pos, chat_db_id, index, new_count, updated_count,
                                unchanged_count, outcomes, snap, completed>>
            ELSE IF r.hash = chat_hash
            THEN Classify(r.id, chats, msgs)
            ELSE pc' = "update_chat"
                 /\ UNCHANGED <<pos, chat_db_id, index, new_count, updated_count,
                                unchanged_count, outcomes, snap, completed>>
    /\ UNCHANGED <<chats, msgs, nextId, runs, export, old_row, rerun>>
    /\ UNCHANGED <<pureVars, fnVars, otherVars>>

\* upsert_chat: INSERT INTO chats ... RETURNING id
InsertChat ==
    /\ pc = "insert_chat"
    /\ chats' = chats \cup {ChatRow(nextId)}
    /\ nextId' = nextId + 1
    /\ stmts' = Append(stmts, Stmt("insert_chat"))
    /\ Classify(nextId, chats', msgs)
    /\ UNCHANGED <<msgs, runs, export, old_row, existing, rerun>>
    /\ UNCHANGED <<pureVars, fnVars, otherVars>>

\* upsert_chat: UPDATE chats SET ... WHERE id = %s
UpdateChat ==
    /\ pc = "update_chat"
    /\ chats' = {IF r.id = existing.id THEN ChatRow(r.id) ELSE r : r \in chats}
    /\ stmts' = Append(stmts, Stmt("update_chat"))
    /\ pc' = "delete_messages"
    /\ UNCHANGED <<msgs, nextId, runs, export, pos, old_row, existing, chat_db_id,
                   index, new_count, updated_count, unchanged_count, outcomes,
                   snap, completed, rerun>>
    /\ UNCHANGED <<pureVars, fnVars, otherVars>>

\* upsert_chat: DELETE FROM messages WHERE chat_id = %s, and the return
DeleteMessages ==
    /\ pc = "delete_messages"
    /\ msgs' = DeleteFromMessages(existing.id)
    /\ stmts' = Append(stmts, Stmt("delete_messages"))
    /\ Classify(existing.id, chats, msgs')
    /\ UNCHANGED <<chats, nextId, runs, export, old_row, existing, rerun>>
    /\ UNCHANGED <<pureVars, fnVars, otherVars>>

\* insert_messages: one INSERT INTO messages per loop iteration
InsertMessage ==
    /\ pc = "insert_message"
    /\ msgs' = msgs (+) SetToBag({MessageRow(chat_db_id, index)})
    /\ stmts' = Append(stmts, Stmt("insert_message"))
    /\ IF index + 1 = Len(messages)
       THEN NextRecord(chats, msgs') /\ index' = index
       ELSE index' = index + 1 /\ UNCHANGED <<pc, pos, completed, snap>>
    /\ UNCHANGED <<chats, nextId, runs, export, old_row, existing, chat_db_id,
                   new_count, updated_count, unchanged_count, outcomes, rerun>>
    /\ UNCHANGED <<pureVars, fnVars, otherVars>>

\* the failure caught around the loop body, the run going on with the next record
StorageFailureSkipsRecord ==
    /\ pc \in {"prefetch", "select", "insert_chat", "update_chat",
               "delete_messages", "insert_message"}
    /\ normalize_chat(raw_chat).ok
    /\ stmts' = Append(stmts, [rec |-> pos, ok |-> FALSE,
                               op |-> IF pc = "prefetch" THEN "select" ELSE pc])
    /\ NextRecord(chats, msgs)
    /\ UNCHANGED <<chats, msgs, nextId, runs, export, old_row, existing,
                   chat_db_id, index, new_count, updated_count, unchanged_count,
                   outcomes, rerun>>
    /\ UNCHANGED <<pureVars, fnVars, otherVars>>

\* db.transaction: the statement raises, its transaction is rolled back and the
\* exception leaves ingest_export, which catches nothing
StorageFailure ==
    /\ pc \in {"prefetch", "select", "insert_chat", "update_chat",
               "delete_messages", "insert_message"}
    /\ normalize_chat(raw_chat).ok
    /\ stmts' = Append(stmts, [rec |-> pos, ok |-> FALSE,
                               op |-> IF pc = "prefetch" THEN "select" ELSE pc])
    /\ pc' = "aborted"
    /\ UNCHANGED <<chats, msgs, nextId, runs, export, pos, old_row, existing,
                   chat_db_id, index, new_count, updated_count, unchanged_count,
                   outcomes, snap, completed, rerun>>
    /\ UNCHANGED <<pureVars, fnVars, otherVars>>

Next ==
    \/ \E e \in Exports : StartRun(e)
    \/ PrefetchOldRow
    \/ SelectExisting
    \/ InsertChat
    \/ UpdateChat
    \/ DeleteMessages
    \/ InsertMessage

Spec == Init /\ [][Next]_vars

NextFail == Next \/ StorageFailure

SpecFail == Init /\ [][NextFail]_vars

(***************************************************************************)
(* A second run of ingest_export against the same store, started by        *)
(* another process: the same statements, each in its own transaction, with *)
(* its own locals.  Nothing in db.py or run_ingest.py takes a lock, so its *)
(* statements interleave freely with those of the first run.  The second   *)
(* run ingests an export of one record; its counters are not kept.         *)
(***************************************************************************)
MaxOtherRuns == 1

\* the records both runs draw from: one external id with two contents
ConcChats == {ChatA, ChatAEdited}
ConcExports == {<<c>> : c \in ConcChats}

o_normalized == normalize_chat(o_raw_chat).val
o_messages == Get(o_normalized, "messages").v
o_chat_hash == ChatHashOf(o_normalized)

OtherChatRow(id) ==
    [id |-> id,
     chat_id |-> Get(o_normalized, "chat_id"),
     title |-> Get(o_normalized, "title"),
     create_time |-> TimeOrZero(Get(o_normalized, "create_time")),
     update_time |-> TimeOrZero(Get(o_normalized, "update_time")),
     model |-> Get(o_normalized, "model"),
     hash |-> o_chat_hash,
     content_text |-> flatten_content(o_messages),
     raw_json |-> json_dumps(o_normalized)]

OtherMessageRow(id, i) ==
    [chat_id |-> id,
     message_index |-> i,
     role |-> Get(o_messages[i + 1], "role"),
     content |-> Get(o_messages[i + 1], "content"),
     raw_json |-> json_dumps(Get(o_messages[i + 1], "raw_json"))]

MainActive ==
    pc \in {"prefetch", "select", "insert_chat", "update_chat",
            "delete_messages", "insert_message"}

\* history: the first run is under way, or ran, since the second run's last step
NoteOverlap ==
    /\ overlapped' = (overlapped \/ MainActive \/ runs # o_seen)
    /\ o_seen' = runs

\* the loop body of the second run without its `continue`
OtherClassifyNoContinue(id) ==
    /\ o_chat_db_id' = id
    /\ o_index' = 0
    /\ IF o_messages = <<>>
       THEN o_pc' = "done"
       ELSE o_pc' = "insert_message"

\* ingest_export of the second run after its upsert_chat returned id
OtherClassify(id) ==
    /\ o_chat_db_id' = id
    /\ o_index' = 0
    /\ IF Outcome(o_old_row, o_chat_hash) = "Unchanged" \/ o_messages = <<>>
       THEN o_pc' = "done"
       ELSE o_pc' = "insert_message"

OtherStart(raw) ==
    /\ o_pc \in {"idle", "done"}
    /\ o_runs < MaxOtherRuns
    /\ o_runs' = o_runs + 1
    /\ o_raw_chat' = raw
    /\ o_pc' = "prefetch"
    /\ o_old_row' = NoRow /\ o_existing' = NoRow /\ o_chat_db_id' = 0 /\ o_index' = 0
    /\ overlapped' = (overlapped \/ MainActive)
    /\ o_seen' = runs
    /\ UNCHANGED <<pipeVars, pureVars, fnVars>>

OtherPrefetch ==
    /\ o_pc = "prefetch"
    /\ \E r \in SelectByChatId(Get(o_normalized, "chat_id")) : o_old_row' = r
    /\ o_pc' = "select"
    /\ NoteOverlap
    /\ UNCHANGED <<o_raw_chat, o_existing, o_chat_db_id, o_index, o_runs>>
    /\ UNCHANGED <<pipeVars, pureVars, fnVars>>

OtherSelect ==
    /\ o_pc = "select"
    /\ \E r \in SelectByChatId(Get(o_normalized, "chat_id")) :
         /\ o_existing' = r
         /\ IF ~r.found
            THEN o_pc' = "insert_chat" /\ UNCHANGED <<o_chat_db_id, o_index>>
            ELSE IF r.hash = o_chat_hash
            THEN OtherClassify(r.id)
            ELSE o_pc' = "update_chat" /\ UNCHANGED <<o_chat_db_id, o_index>>
    /\ NoteOverlap
    /\ UNCHANGED <<o_raw_chat, o_old_row, o_runs>>
    /\ UNCHANGED <<pipeVars, pureVars, fnVars>>

OtherInsertChat ==
    /\ o_pc = "insert_chat"
    /\ chats' = chats \cup {OtherChatRow(nextId)}
    /\ nextId' = nextId + 1
    /\ OtherClassify(nextId)
    /\ NoteOverlap
    /\ UNCHANGED <<o_raw_chat, o_old_row, o_existing, o_runs>>
    /\ UNCHANGED <<msgs, runs, export, pos, pc, old_row, existing, chat_db_id, index,
                   new_count, updated_count, unchanged_count, outcomes, stmts, snap,
                   completed, rerun>>
    /\ UNCHANGED <<pureVars, fnVars>>

OtherUpdateChat ==
    /\ o_pc = "update_chat"
    /\ chats' = {IF r.id = o_existing.id THEN OtherChatRow(r.id) ELSE r : r \in chats}
    /\ o_pc' = "delete_messages"
    /\ NoteOverlap
    /\ UNCHANGED <<o_raw_chat, o_old_row, o_existing, o_chat_db_id, o_index, o_runs>>
    /\ UNCHANGED <<msgs, nextId, runs, export, pos, pc, old_row, existing, chat_db_id,
                   index, new_count, updated_count, unchanged_count, outcomes, stmts,
                   snap, completed, rerun>>
    /\ UNCHANGED <<pureVars, fnVars>>

OtherDeleteMessages ==
    /\ o_pc = "delete_messages"
    /\ msgs' = DeleteFromMessages(o_existing.id)
    /\ OtherClassify(o_existing.id)
    /\ NoteOverlap
    /\ UNCHANGED <<o_raw_chat, o_old_row, o_existing, o_runs>>
    /\ UNCHANGED <<chats, nextId, runs, export, pos, pc, old_row, existing, chat_db_id,
                   index, new_count, updated_count, unchanged_count, outcomes, stmts,
                   snap, completed, rerun>>
    /\ UNCHANGED <<pureVars, fnVars>>

OtherInsertMessage ==
    /\ o_pc = "insert_message"
    /\ msgs' = msgs (+) SetToBag({OtherMessageRow(o_chat_db_id, o_index)})
    /\ IF o_index + 1 = Len(o_messages)
       THEN o_pc' = "done" /\ o_index' = o_index
       ELSE o_index' = o_index + 1 /\ o_pc' = o_pc
    /\ NoteOverlap
    /\ UNCHANGED <<o_raw_chat, o_old_row, o_existing, o_chat_db_id, o_runs>>
    /\ UNCHANGED <<chats, nextId, runs, export, pos, pc, old_row, existing, chat_db_id,
                   index, new_count, updated_count, unchanged_count, outcomes, stmts,
                   snap, completed, rerun>>
    /\ UNCHANGED <<pureVars, fnVars>>

NextConc ==
    \/ \E e \in ConcExports : StartRun(e)
    \/ PrefetchOldRow
    \/ SelectExisting
    \/ InsertChat
    \/ UpdateChat
    \/ DeleteMessages
    \/ InsertMessage
    \/ \E raw \in ConcChats : OtherStart(raw)
    \/ OtherPrefetch
    \/ OtherSelect
    \/ OtherInsertChat
    \/ OtherUpdateChat
    \/ OtherDeleteMessages
    \/ OtherInsertMessage

SpecConc == Init /\ [][NextConc]_vars

(***************************************************************************)
(* normalize_chat and the fingerprint as functions of the raw record:      *)
(* two records, the second equal to the first except for one volatile      *)
(* field of one message                                                    *)
(***************************************************************************)
MaxNodes == 3

PureUser == Dict([id |-> T("p1"), author |-> Author("user"), create_time |-> Num(100),
                  content |-> Dict([parts |-> List(<<Str(<<"a">>), Null, Str(<<"b", " ">>)>>)])])
PureEarly == Dict([id |-> T("p2"), author |-> Dict([name |-> T("x")]), role |-> T("tool"),
                   create_time |-> Num(50), content |-> Dict([text |-> Str(<<" ", "c">>)])])
PureTie == Dict([id |-> T("p3"), create_time |-> Num(50), rating |-> T("up"),
                 content |-> Str(<<"d">>)])
PureNoTime == Dict([id |-> T("p4"), author |-> Author("system"), content |-> Str(<<"e">>)])
PureOddTime == Dict([create_time |-> T("soon"), content |-> Null])
PureZero == Dict([create_time |-> Num(0), content |-> Str(<<"f">>)])

\* what a node or a list item may hold; Null is a node without a message
PureEntries == {PureUser, PureEarly, PureTie, PureNoTime, PureOddTime, PureZero, Null}

PureChat(shape, entries) ==
    IF shape = "mapping"
    THEN Dict([id |-> T("p"), title |-> T("Pure"), model |-> T("gpt-4"),
               mapping |-> Mapping([i \in 1..Len(entries) |-> Node(entries[i])])])
    ELSE Dict([id |-> T("p"), title |-> T("Pure"), model |-> T("gpt-4"),
               messages |-> List(entries)])

SetField(msg, f, val) ==
    Dict([k \in DOMAIN msg.v \cup {f} |-> IF k = f THEN val ELSE msg.v[k]])

\* the same entries with volatile field f of the k-th message set to a new value
Reexported(entries, k, f) ==
    [i \in 1..Len(entries) |->
        IF i = k /\ IsDict(entries[i]) THEN SetField(entries[i], f, Num(7))
        ELSE entries[i]]

InitPure ==
    /\ PipeInit
    /\ \E shape \in {"mapping", "list"} :
       \E entries \in SeqsUpTo(PureEntries, MaxNodes) :
       \E k \in 1..MaxNodes :
       \E f \in VOLATILE_MESSAGE_KEYS :
         /\ in1 = PureChat(shape, entries)
         /\ in2 = PureChat(shape, Reexported(entries, k, f))
    /\ out1 = Raised /\ out2 = Raised
    /\ fp1 = NoHash /\ fp2 = NoHash
    /\ ppc = "input"
    /\ FnOff
    /\ OtherOff

Normalize ==
    /\ ppc = "input"
    /\ out1' = normalize_chat(in1)
    /\ out2' = normalize_chat(in2)
    /\ ppc' = "normalized"
    /\ UNCHANGED <<in1, in2, fp1, fp2>>
    /\ UNCHANGED <<pipeVars, fnVars, otherVars>>

Fingerprint ==
    /\ ppc = "normalized"
    /\ out1.ok /\ out2.ok
    /\ fp1' = ChatHashOf(out1.val)
    /\ fp2' = ChatHashOf(out2.val)
    /\ ppc' = "hashed"
    /\ UNCHANGED <<in1, in2, out1, out2>>
    /\ UNCHANGED <<pipeVars, fnVars, otherVars>>

NextPure == Normalize \/ Fingerprint

SpecPure == InitPure /\ [][NextPure]_vars

(***************************************************************************)
(* Single calls of extract_message_role / extract_message_content and of   *)
(* hash_chat, on arguments of every shape JSON allows                      *)
(***************************************************************************)
MaxItems == 2

\* items of a parts list
PartItems == {Str(<<" ", "a">>), Str(<<"b", "\n">>), Num(5), Null}

\* a field of a dict: Missing stands for the key not being there
Missing == [t |-> "missing"]
WithFields(fields) ==
    Dict([k \in {f \in DOMAIN fields : fields[f] # Missing} |-> fields[k]])

PartsValues == {List(l) : l \in SeqsUpTo(PartItems, MaxItems)} \cup {Missing, T("p"), Null}
TextValues == {Missing, Str(<<" ", "t", " ">>), Num(1)}
ContentValues ==
    {WithFields([parts |-> p, text |-> t]) : p \in PartsValues, t \in TextValues}
    \cup {Missing, Null, Str(<<"\n", "s", " ">>), Str(<<" ">>), Num(3), List(<<T("x")>>)}
AuthorValues ==
    {Missing, Null, T("user"), Author("user"), Dict([role |-> Num(5)]),
     Dict([role |-> Null]), Dict([name |-> T("x")])}
RoleValues == {Missing, Null, T("system"), Str(<<>>), Num(5), Num(0)}

RawMessages ==
    {WithFields([author |-> a, role |-> r, content |-> c]) :
        a \in AuthorValues, r \in RoleValues, c \in ContentValues}

HashTitles == {T("Trip"), Str(<<>>)}
HashMessages == SeqsUpTo({NormMsg(MsgHi), NormMsg(MsgEdited)}, MaxItems)
\* extra_fields as a caller supplies it; Null is the default of the parameter
SuppliedExtras == {EmptyDict, Dict([model |-> Null]), Dict([model |-> T("gpt-4")])}

InitFn ==
    /\ PipeInit
    /\ PureOff
    /\ OtherOff
    /\ msg_role = Null /\ msg_content = Null
    /\ digest = NoHash /\ digest_bare = NoHash
    /\ \/ /\ fpc = "message"
          /\ raw_msg \in RawMessages
          /\ h_title = Null /\ h_messages = <<>> /\ h_extra_fields = Null
       \/ /\ fpc = "chat"
          /\ raw_msg = EmptyDict
          /\ h_title \in HashTitles
          /\ h_messages \in HashMessages
          /\ h_extra_fields \in SuppliedExtras

ExtractMessage ==
    /\ fpc = "message"
    /\ msg_role' = extract_message_role(raw_msg)
    /\ msg_content' = extract_message_content(raw_msg)
    /\ fpc' = "extracted"
    /\ UNCHANGED <<raw_msg, h_title, h_messages, h_extra_fields, digest, digest_bare>>
    /\ UNCHANGED <<pipeVars, pureVars, otherVars>>

HashChat ==
    /\ fpc = "chat"
    /\ digest' = hash_chat(h_title, h_messages, h_extra_fields)
    /\ digest_bare' = hash_chat(h_title, h_messages, Null)
    /\ fpc' = "digested"
    /\ UNCHANGED <<raw_msg, msg_role, msg_content, h_title, h_messages, h_extra_fields>>
    /\ UNCHANGED <<pipeVars, pureVars, otherVars>>

NextFn == ExtractMessage \/ HashChat

SpecFn == InitFn /\ [][NextFn]_vars

(***************************************************************************)
(* Vocabulary of the properties                                            *)
(***************************************************************************)
ExtId(raw) == Get(raw, "id")
RecNormalized(raw) == normalize_chat(raw).val
RecMessages(raw) == Get(RecNormalized(raw), "messages").v
RecHash(raw) == ChatHashOf(RecNormalized(raw))

RowsFor(tbl, ext) == IF ext = Null THEN {} ELSE {r \in tbl : r.chat_id = ext}
MessagesOf(tbl, id) == [m \in {x \in DOMAIN tbl : x.chat_id = id} |-> tbl[m]]

\* the rows the messages of raw should be stored as under internal id `id`
ExpectedMessageRows(id, raw) ==
    SetToBag({[chat_id |-> id,
               message_index |-> i - 1,
               role |-> Get(RecMessages(raw)[i], "role"),
               content |-> Get(RecMessages(raw)[i], "content"),
               raw_json |-> json_dumps(Get(RecMessages(raw)[i], "raw_json"))] :
              i \in 1..Len(RecMessages(raw))})

\* row u holds the fields of raw and its fresh fingerprint
CarriesRecord(u, raw) ==
    /\ u.chat_id = ExtId(raw)
    /\ u.title = Get(RecNormalized(raw), "title")
    /\ u.model = Get(raw, "model")
    /\ u.create_time = Or(Get(raw, "create_time"), Num(0))
    /\ u.update_time = Or(Get(raw, "update_time"), Num(0))
    /\ u.hash = RecHash(raw)

\* this step ends the loop iteration of record export[pos]
RecordEnds == completed' = completed + 1

NoWriteIn(log) == \A i \in 1..Len(log) : log[i].op = "select"
StmtsOfRecord(k) == SelectSeq(stmts', LAMBDA st : st.rec = k)

\* every record has an external id and records sharing one share the fingerprint
Reingestable(e) ==
    /\ \A i \in 1..Len(e) : ExtId(e[i]) # Null
    /\ \A i, j \in 1..Len(e) : ExtId(e[i]) = ExtId(e[j]) => RecHash(e[i]) = RecHash(e[j])

StoredSame ==
    \E r \in RowsFor(snap.chats, ExtId(raw_chat)) : r.hash = chat_hash

C3_UnchangedWritesNothing ==
    [][(RecordEnds /\ StoredSame) =>
          /\ outcomes'[pos] = "Unchanged"
          /\ unchanged_count' = unchanged_count + 1
          /\ chats' = snap.chats
          /\ msgs' = snap.msgs
          /\ NoWriteIn(StmtsOfRecord(pos))]_vars

C3_Witness ==
    /\ completed >= 1
    /\ outcomes[completed] = "Unchanged"
    /\ RecMessages(export[completed]) # <<>>
    /\ \E r \in RowsFor(chats, ExtId(export[completed])) :
          MessagesOf(msgs, r.id) # EmptyBag

(***************************************************************************)
(* C4: a record whose chat is stored with another fingerprint is counted   *)
(* Updated; when its iteration ends the row, under the same internal id,   *)
(* carries the record's title, model, times and fingerprint, and the       *)
(* stored messages of that id are exactly the normalized messages with     *)
(* indices 0..N-1 in order.                                                *)
(***************************************************************************)
StoredDiffers ==
    \E r \in RowsFor(snap.chats, ExtId(raw_chat)) : r.hash # chat_hash

C4_UpdatedReplacesMessages ==
    [][(RecordEnds /\ StoredDiffers) =>
          /\ outcomes'[pos] = "Updated"
          /\ {r.id : r \in chats'} = {r.id : r \in snap.chats}
          /\ \A r \in RowsFor(snap.chats, ExtId(raw_chat)) :
                \E u \in chats' :
                   /\ u.id = r.id
                   /\ CarriesRecord(u, raw_chat)
                   /\ MessagesOf(msgs', r.id) = ExpectedMessageRows(r.id, raw_chat)]_vars

\* a later run has replaced the two stored messages of chat a by the edited one
C4_Witness ==
    /\ runs = 2
    /\ completed >= 1
    /\ outcomes[completed] = "Updated"
    /\ export[completed] = ChatAEdited
    /\ \E r \in RowsFor(chats, ExtId(ChatAEdited)) :
          MessagesOf(msgs, r.id) = ExpectedMessageRows(r.id, ChatAEdited)

(***************************************************************************)
(* C5: a record whose external id has no stored chat is counted New; its   *)
(* iteration adds exactly one chat row, with the record's fields and       *)
(* fingerprint under a fresh internal id, and exactly the N normalized     *)
(* messages under that id with indices 0..N-1.                             *)
(***************************************************************************)
Absent == RowsFor(snap.chats, ExtId(raw_chat)) = {}

C5_NewInsertsChatAndMessages ==
    [][(RecordEnds /\ Absent) =>
          /\ outcomes'[pos] = "New"
          /\ \E n \in chats' :
                /\ n \notin snap.chats
                /\ chats' = snap.chats \cup {n}
                /\ n.id \notin {r.id : r \in snap.chats}
                /\ CarriesRecord(n, raw_chat)
                /\ msgs' = snap.msgs (+) ExpectedMessageRows(n.id, raw_chat)]_vars

C5_Witness ==
    /\ completed = 2
    /\ outcomes = <<"New", "New">>
    /\ export[2] = ChatA
    /\ BagCardinality(msgs) >= 3
    /\ \E m \in DOMAIN msgs : m.message_index = 1

(***************************************************************************)
(* C2: the chat-row write, the DELETE and the message INSERTs of one chat  *)
(* commit all or nothing: after an aborted run no chat holds the           *)
(* fingerprint of a record without exactly that record's messages, and a   *)
(* complete run leaves every chat of its export with exactly the export's  *)
(* messages.                                                               *)
(***************************************************************************)
LastWithItsId(e, i) == \A j \in (i + 1)..Len(e) : ExtId(e[j]) # ExtId(e[i])

C2_AtomicWriteGroup ==
    /\ pc = "aborted" =>
          \A i \in 1..Len(export) :
             \A r \in RowsFor(chats, ExtId(export[i])) :
                r.hash = RecHash(export[i]) =>
                   MessagesOf(msgs, r.id) = ExpectedMessageRows(r.id, export[i])
    /\ pc = "done" =>
          \A i \in 1..Len(export) :
             (ExtId(export[i]) # Null /\ LastWithItsId(export, i)) =>
                \E r \in RowsFor(chats, ExtId(export[i])) :
                   MessagesOf(msgs, r.id) = ExpectedMessageRows(r.id, export[i])

(***************************************************************************)
(* C6: two raw records that differ only in a volatile field (id,           *)
(* create_time, update_time, timestamp, rating, metadata) of one message   *)
(* get the same fingerprint from normalize_chat followed by hash_chat.     *)
(***************************************************************************)
C6_VolatilityInvariance == ppc = "hashed" => fp1 = fp2

(***************************************************************************)
(* C7: a record with neither a dict-valued mapping nor a list-valued       *)
(* messages normalizes to zero messages without raising; when its          *)
(* iteration ends a chat row with its external id exists and has no        *)
(* message rows, and the run goes on with the next record and ends only    *)
(* after the last one.                                                     *)
(***************************************************************************)
Shapeless(raw) == ~IsDict(Get(raw, "mapping")) /\ ~IsList(Get(raw, "messages"))

C7_UnrecognizedShapeKept ==
    /\ []((pos >= 1 /\ Shapeless(raw_chat)) =>
             /\ normalize_chat(raw_chat).ok
             /\ RecMessages(raw_chat) = <<>>
             /\ pc # "aborted")
    /\ [](pc = "done" => completed = Len(export))
    /\ [][(RecordEnds /\ Shapeless(raw_chat)) =>
             /\ \E r \in chats' :
                   /\ r.chat_id = ExtId(raw_chat)
                   /\ MessagesOf(msgs', r.id) = EmptyBag
             /\ pos < Len(export) => (pc' = "prefetch" /\ pos' = pos + 1)]_vars

C7_Witness ==
    /\ pc = "done"
    /\ export = <<ChatBNoShape, ChatA>>
    /\ completed = 2
    /\ \E r \in chats : r.chat_id = ExtId(ChatBNoShape) /\ MessagesOf(msgs, r.id) = EmptyBag
    /\ \E r \in chats : r.chat_id = ExtId(ChatA) /\ BagCardinality(MessagesOf(msgs, r.id)) = 2

(***************************************************************************)
(* C8: a failing storage statement ends the run: the failed statement is   *)
(* the last the run issues (no retry, nothing for later records), the      *)
(* failure changes neither table, so every earlier commit stays, and the   *)
(* aborted run does nothing more.                                          *)
(***************************************************************************)
C8_FailureAbortsBatch ==
    /\ [](\A i \in 1..Len(stmts) :
             ~stmts[i].ok => /\ i = Len(stmts)
                             /\ pc = "aborted"
                             /\ stmts[i].rec = pos)
    /\ [](\A i \in 1..Len(stmts) : stmts[i].rec <= pos)
    /\ [][(pc # "aborted" /\ pc' = "aborted") =>
             (chats' = chats /\ msgs' = msgs /\ pos' = pos)]_vars
    /\ [][pc = "aborted" =>
             (runs' = runs + 1 /\ chats' = chats /\ msgs' = msgs)]_vars

C8_Witness ==
    /\ pc = "aborted"
    /\ pos = 2 /\ completed = 1
    /\ Len(export) = 2
    /\ snap.chats # {} /\ snap.chats \subseteq chats
    /\ stmts[Len(stmts)] = [rec |-> 2, ok |-> FALSE, op |-> "insert_message"]

(***************************************************************************)
(* C9: the normalized messages of a mapping-shaped record are the          *)
(* embedded messages of its nodes, nodes without a message skipped, in     *)
(* ascending order of create_time with a missing or non-numeric            *)
(* create_time counted as 0; equal keys keep their encounter order, and    *)
(* no message with a positive timestamp precedes one without a timestamp.  *)
(***************************************************************************)
OrderKey(rawmsg) ==
    IF IsNum(Get(rawmsg, "create_time")) THEN Get(rawmsg, "create_time").v ELSE 0

RECURSIVE Embedded(_)
Embedded(nodes) ==
    IF nodes = <<>> THEN <<>>
    ELSE IF Truthy(Get(Head(nodes), "message"))
         THEN <<Get(Head(nodes), "message")>> \o Embedded(Tail(nodes))
         ELSE Embedded(Tail(nodes))

IsStableSortOf(res, emb) ==
    /\ Len(res) = Len(emb)
    /\ Len(res) > 0 =>
         \E p \in Permutations(1..Len(emb)) :
            /\ \A i \in 1..Len(res) : res[i] = emb[p[i]]
            /\ \A i, j \in 1..Len(res) :
                  i < j => /\ OrderKey(res[i]) <= OrderKey(res[j])
                           /\ OrderKey(res[i]) = OrderKey(res[j]) => p[i] < p[j]
    /\ \A i, j \in 1..Len(res) :
          (i < j /\ ~IsNum(Get(res[j], "create_time"))) => OrderKey(res[i]) <= 0

OrderLawFor(raw, out) ==
    IsDict(Get(raw, "mapping")) =>
        /\ out.ok
        /\ LET ms == Get(out.val, "messages").v
           IN IsStableSortOf([i \in 1..Len(ms) |-> Get(ms[i], "raw_json")],
                             Embedded(Get(raw, "mapping").values))

C9_OrderLaw ==
    ppc \in {"normalized", "hashed"} => OrderLawFor(in1, out1) /\ OrderLawFor(in2, out2)

\* timestamps 100, 50 and 50 again: the two of key 50 first in their encounter order
C9_Witness ==
    /\ ppc = "normalized"
    /\ IsDict(Get(in1, "mapping"))
    /\ Embedded(Get(in1, "mapping").values) = <<PureUser, PureTie, PureEarly>>
    /\ Get(out1.val, "messages").v = <<NormMsg(PureTie), NormMsg(PureEarly), NormMsg(PureUser)>>

(***************************************************************************)
(* C10: one sync transition per run.  As claimed for every external id of  *)
(* any export list it fails: an id the export lists twice is transitioned  *)
(* twice.  What holds: each record of the export is classified exactly     *)
(* once, by the transition that matches the store when its iteration       *)
(* began, with at most one chat-row write and one DELETE; so an external   *)
(* id listed once in the export is transitioned at most once.              *)
(***************************************************************************)
C10_OneTransitionPerExternalId ==
    \A i, j \in 1..Len(outcomes) : i # j => ExtId(export[i]) # ExtId(export[j])

ExpectedTransition ==
    IF Absent THEN "New" ELSE IF StoredSame THEN "Unchanged" ELSE "Updated"

CountOps(k, ops) ==
    Cardinality({i \in 1..Len(stmts) : stmts[i].rec = k /\ stmts[i].op \in ops})

C10_OneTransitionPerRecord ==
    /\ [](/\ Len(outcomes) \in {pos - 1, pos} \cap 0..Len(export)
          /\ pc \in {"done", "insert_message"} => Len(outcomes) = pos
          /\ new_count + updated_count + unchanged_count = Len(outcomes)
          /\ \A k \in 1..Len(export) :
                /\ CountOps(k, {"insert_chat", "update_chat"}) <= 1
                /\ CountOps(k, {"delete_messages"}) <= 1)
    /\ [][Len(outcomes') = Len(outcomes) + 1 =>
             (Len(outcomes') = pos /\ outcomes'[pos] = ExpectedTransition)]_vars

C10_Witness ==
    /\ pc = "done" /\ runs = 2
    /\ Len(export) = 2
    /\ ExtId(export[1]) # ExtId(export[2])
    /\ outcomes = <<"Updated", "Unchanged">>

(***************************************************************************)
(* C11: every record whose iteration has ended issued exactly one lookup   *)
(* of the stored chat by external id, as its first statement, and then at  *)
(* most one chat-row write with its message writes; a record counted       *)
(* Unchanged issued that lookup and no write.                              *)
(***************************************************************************)
C11_OneLookupPerRecord ==
    \A k \in 1..completed :
       /\ CountOps(k, {"select"}) = 1
       /\ CountOps(k, {"insert_chat", "update_chat"}) <= 1
       /\ outcomes[k] = "Unchanged" =>
             CountOps(k, {"insert_chat", "update_chat", "delete_messages",
                          "insert_message"}) = 0

(***************************************************************************)
(* C12: normalize_chat returns a normalized chat, without raising, for     *)
(* every dict record whatever its nodes and list items hold (null          *)
(* included), and every message content it returns is a string.            *)
(***************************************************************************)
ReturnsMessages(out) ==
    /\ out.ok
    /\ \A i \in 1..Len(Get(out.val, "messages").v) :
          IsStr(Get(Get(out.val, "messages").v[i], "content"))

C12_NormalizeNeverRaises ==
    ppc \in {"normalized", "hashed"} => ReturnsMessages(out1) /\ ReturnsMessages(out2)

(***************************************************************************)
(* C13: extract_message_content returns a string for every content shape:  *)
(* for a dict content with a list-valued parts field, the string elements  *)
(* of the list joined by newline and trimmed; otherwise for a dict content *)
(* with a string text field, that text trimmed; otherwise for a string     *)
(* content, that string trimmed; otherwise the empty string.               *)
(***************************************************************************)
\* r is s without its leading and trailing whitespace
Trimmed(r, s) ==
    \E i \in 1..(Len(s) + 1), j \in 0..Len(s) :
       /\ r = SubSeq(s, i, j)
       /\ \A k \in 1..(i - 1) : s[k] \in Whitespace
       /\ \A k \in (j + 1)..Len(s) : s[k] \in Whitespace
       /\ r # <<>> => (r[1] \notin Whitespace /\ r[Len(r)] \notin Whitespace)

StringParts(l) ==
    LET strs == SelectSeq(l, IsStr) IN [i \in 1..Len(strs) |-> strs[i].v]

RECURSIVE NewlineJoined(_)
NewlineJoined(texts) ==
    IF Len(texts) = 0 THEN <<>>
    ELSE IF Len(texts) = 1 THEN texts[1]
    ELSE NewlineJoined(SubSeq(texts, 1, Len(texts) - 1)) \o <<"\n">> \o texts[Len(texts)]

C13_ContentPriority ==
    fpc = "extracted" =>
       LET c == Get(raw_msg, "content")
           parts == Get(c, "parts")
           text == Get(c, "text")
       IN /\ IsStr(msg_content)
          /\ IF IsDict(c) /\ IsList(parts)
             THEN Trimmed(msg_content.v, NewlineJoined(StringParts(parts.v)))
             ELSE IF IsDict(c) /\ IsStr(text) THEN Trimmed(msg_content.v, text.v)
             ELSE IF IsStr(c) THEN Trimmed(msg_content.v, c.v)
             ELSE msg_content.v = <<>>

\* parts [" a", "b\n"] beside a text " t ": the parts win
C13_Witness ==
    /\ fpc = "extracted"
    /\ Get(raw_msg, "content") =
          Dict([parts |-> List(<<Str(<<" ", "a">>), Str(<<"b", "\n">>)>>),
                text |-> Str(<<" ", "t", " ">>)])
    /\ msg_content = Str(<<"a", "\n", "b">>)

(***************************************************************************)
(* C14: extract_message_role returns the role of a dict-valued author when *)
(* that role is a string, otherwise the top-level role when there is one,  *)
(* otherwise "assistant"; a message without usable author data and without *)
(* a top-level role is tagged "assistant"; the role returned is always a   *)
(* string.                                                                 *)
(***************************************************************************)
C14_RoleAlwaysString ==
    fpc = "extracted" =>
       LET author == Get(raw_msg, "author")
           top == Get(raw_msg, "role")
       IN /\ IsStr(msg_role)
          /\ IF IsDict(author) /\ IsStr(Get(author, "role"))
             THEN msg_role = Get(author, "role")
             ELSE IF IsStr(top) /\ top.v # <<>> THEN msg_role = top
             ELSE top = Null => msg_role = Str(<<"assistant">>)

(***************************************************************************)
(* C15: for every title and message list, the digest hash_chat computes    *)
(* with extra_fields supplied, an empty extra_fields included, differs     *)
(* from the digest it computes with extra_fields not supplied.             *)
(***************************************************************************)
C15_ExtraChangesDigest ==
    fpc = "digested" => digest # digest_bare

(***************************************************************************)
(* C17: from an empty store, through complete runs one after the other,    *)
(* the chats table holds at most one row per external id and no internal   *)
(* id twice; when a record's iteration ends exactly one row holds its      *)
(* external id, after a run every external id of its export has exactly    *)
(* one row, and no step removes a row or changes the external id stored    *)
(* under an internal id.                                                   *)
(***************************************************************************)
C17_UniqueRowPerExternalId ==
    /\ [](\A r, u \in chats :
             (r.id = u.id \/ (r.chat_id # Null /\ r.chat_id = u.chat_id)) => r = u)
    /\ [](pc = "done" =>
             \A i \in 1..Len(export) :
                ExtId(export[i]) # Null =>
                   Cardinality(RowsFor(chats, ExtId(export[i]))) = 1)
    /\ [][(RecordEnds /\ ExtId(raw_chat) # Null) =>
             Cardinality(RowsFor(chats', ExtId(raw_chat))) = 1]_vars
    /\ [][\A r \in chats : \E u \in chats' : u.id = r.id /\ u.chat_id = r.chat_id]_vars

\* the last run met both stored ids again and the table still has two rows
C17_Witness ==
    /\ pc = "done" /\ runs = MaxRuns
    /\ Len(export) = 2
    /\ ExtId(export[1]) # ExtId(export[2])
    /\ "New" \notin {outcomes[i] : i \in 1..Len(outcomes)}
    /\ "Updated" \in {outcomes[i] : i \in 1..Len(outcomes)}
    /\ Cardinality(chats) = 2
    /\ {r.id : r \in chats} = {1, 2}

(***************************************************************************)
(* C18: between the records of complete runs from an empty store, the      *)
(* message rows of every chat row have the indices 0..N-1, each once, and  *)
(* their (role, content, raw payload) in index order, with the row's title *)
(* and model, hash to the row's stored fingerprint; the lookup of          *)
(* upsert_chat returns what the pre-fetch of ingest_export returned, and a *)
(* record's messages are inserted exactly when its chat row was inserted   *)
(* or updated.                                                             *)
(***************************************************************************)
BetweenRecords == pc \in {"idle", "prefetch", "done"}

StoredMessage(tbl, id, i) ==
    LET row == CHOOSE m \in DOMAIN MessagesOf(tbl, id) : m.message_index = i
    IN Dict([role |-> row.role, content |-> row.content, raw_json |-> row.raw_json.json])

MessagesMatchHash(r) ==
    LET rows == MessagesOf(msgs, r.id)
        N == BagCardinality(rows)
    IN /\ \A m \in DOMAIN rows : rows[m] = 1
       /\ {m.message_index : m \in DOMAIN rows} = 0..(N - 1)
       /\ Cardinality(DOMAIN rows) = N
       /\ hash_chat(r.title, [i \in 1..N |-> StoredMessage(msgs, r.id, i - 1)],
                    Dict([model |-> r.model])) = r.hash

WritesOf(log, ops) == Len(SelectSeq(log, LAMBDA st : st.op \in ops))

C18_MessagesMatchFingerprint ==
    /\ [](BetweenRecords => \A r \in chats : MessagesMatchHash(r))
    /\ [][pc = "select" => existing' = old_row]_vars
    /\ [][RecordEnds =>
             LET written == WritesOf(StmtsOfRecord(pos), {"insert_chat", "update_chat"})
             IN /\ written = (IF outcomes'[pos] = "Unchanged" THEN 0 ELSE 1)
                /\ WritesOf(StmtsOfRecord(pos), {"insert_message"}) =
                      written * Len(messages)]_vars

\* chat a edited and then restored: its row holds the two messages of ChatA again
C18_Witness ==
    /\ pc = "done" /\ runs = 2
    /\ export = <<ChatAEdited, ChatA>>
    /\ outcomes = <<"Updated", "Updated">>
    /\ \E r \in RowsFor(chats, ExtId(ChatA)) :
          /\ BagCardinality(MessagesOf(msgs, r.id)) = 2
          /\ r.hash = RecHash(ChatA)

(***************************************************************************)
(* C16: two runs against one store are not serialised.  As long as no step *)
(* of one run has fallen inside the other run, the chats table has at most *)
(* one row per external id and the messages table has no row twice and no  *)
(* two rows with the same chat and index; once the runs interleave, a      *)
(* store with two chat rows for one external id, and a store with          *)
(* duplicated message rows for one chat, are reachable (the witness).      *)
(***************************************************************************)
OneRowPerExternalId ==
    \A r, u \in chats : r.chat_id = u.chat_id => r = u

NoDuplicateMessages ==
    /\ \A m \in DOMAIN msgs : msgs[m] = 1
    /\ \A m, n \in DOMAIN msgs :
          (m.chat_id = n.chat_id /\ m.message_index = n.message_index) => m = n

C16_SerialRunsKeepStoreConsistent ==
    ~overlapped => (OneRowPerExternalId /\ NoDuplicateMessages)

\* interleaved runs have ended with two rows for chat a and with a message
\* row stored twice or two message rows at one index of one chat
C16_Witness ==
    /\ overlapped
    /\ pc = "done" /\ o_pc = "done"
    /\ \E r, u \in chats : r.chat_id = u.chat_id /\ r.id # u.id
    /\ ~NoDuplicateMessages
=============================================================================
